---- MODULE Spec2Model ----
(***************************************************************************)
(* A model of the UCI coordination layer of opera-engine (rust/src).       *)
(*                                                                         *)
(*   Spec      the command dispatcher (uci/engine.rs) running its handlers *)
(*             one at a time, concurrently with the search-completion      *)
(*             tasks that `go` spawns on the multi-threaded runtime.       *)
(*             Every access to the shared UCIState (uci/state.rs) is one   *)
(*             step, so the check-then-swap of transition_to interleaves.  *)
(*   FairSpec  Spec with weak fairness on the steps of every thread.       *)
(*   SpecSM    the public operations of UCIState called one after another  *)
(*             by a single caller (as the unit tests of state.rs do).      *)
(*   SpecCfg   the handlers of `setoption` and `uci` (uci/engine.rs)       *)
(*             called one after another on the configuration.              *)
(*   SpecRecover  SpecSM with recovery::recover_from_error (error.rs).     *)
(*   SpecTime  the time policies (time/policies.rs) applied to inputs      *)
(*             drawn from bounded sets.                                    *)
(*   SpecStop  should_stop_early of the time policies on bounded inputs.   *)
(*   SpecParse ZeroCopyParser::parse_command (uci/parser.rs) on `position` *)
(*             lines, with the validators of uci/sanitizer.rs and          *)
(*             uci/commands.rs.                                            *)
(*   SpecRead  the stdin branch of the select! of UCIEventLoop::run,       *)
(*             character by character.                                     *)
(*   SpecLoop  the whole program: UCIEventLoop::run (uci/event_loop.rs)    *)
(*             reading stdin, running each handler of the dispatcher       *)
(*             inline, and writing the responses it receives from the      *)
(*             broadcast channel to stdout, concurrently with the tasks.   *)
(*   FairLoop  SpecLoop with weak fairness on the steps of the loop and    *)
(*             of every thread.                                            *)
(***************************************************************************)
EXTENDS Integers, Naturals, Sequences, FiniteSets, TLC

\* ---------------------------------------------------------------- bounds
\* number of commands the dispatcher processes in one behaviour
MaxCmds == 4
\* number of search-completion tasks (accepted `go` commands)
MaxGo == 2
\* number of UCIState operations one behaviour of SpecSM performs
MaxOps == 4
\* width in bits to which the u64 of the time policies is scaled
\* (TLC integers are 32-bit, so the 64-bit width itself is out of reach)
WordBits == 24
\* width in bits to which the u32 of the option values is scaled
U32Bits == 12
\* number of reads of stdin one behaviour of SpecLoop performs
MaxLines == 2
\* capacity to which broadcast::channel(64) of the responses is scaled
ResponseCapacity == 2

VARIABLES
    current_state,         \* UCIState.current_state (AtomicU8)
    search_context,        \* UCIState.search_context: Option<SearchContext>
    searches_started,      \* UCIState.searches_started
    searches_completed,    \* UCIState.searches_completed
    total_nodes_searched,  \* UCIState.total_nodes_searched
    events,                \* StateChangeEvents sent on state_change_tx
    responses,             \* strings sent on UCIEngine.response_tx
    th,                    \* position and locals of the dispatcher and tasks
    ncmds,                 \* commands dispatched so far
    last,                  \* the last handler that returned, and its result
    last_call,             \* SpecSM: the last UCIState operation and result
    nops,                  \* SpecSM: operations performed so far
    config,                \* UCIState.config: EngineConfig
    params,                \* SpecTime: SearchParams
    position_info,         \* SpecTime: PositionInfo
    policy,                \* SpecTime: the TimePolicy in use
    limits,                \* SpecTime: result of calculate_time_limit
    progress,              \* SpecStop: SearchProgress
    elapsed,               \* SpecStop: time since the search began, in us
    stop_early,            \* SpecStop: result of should_stop_early
    cmd_line,              \* SpecParse: the tokens of a command line
    parsed,                \* SpecParse: result of parse_command
    stdin_lines,           \* SpecRead: the lines written to stdin
    arriving,              \* SpecRead: their characters still to arrive
    pipe,                  \* SpecRead: characters that arrived, unread
    read_buf,              \* SpecRead: buffer of the pending read_line
    handed,                \* SpecRead: lines given to process_input_command
    rx,                    \* UCIEventLoop.response_rx, a broadcast receiver
    lp,                    \* SpecLoop: position and locals of UCIEventLoop::run
    stdout,                \* SpecLoop: the lines written to stdout
    stats,                 \* SpecLoop: EventLoopStats
    sig                    \* SpecLoop: the Ctrl-C task has sent the signal

vars == <<current_state, search_context, searches_started, searches_completed,
          total_nodes_searched, events, responses, th, ncmds, last,
          last_call, nops, config, params, position_info, policy, limits,
          progress, elapsed, stop_early, cmd_line,
          parsed, stdin_lines, arriving, pipe, read_buf, handed, rx, lp, stdout, stats, sig>>

shared == <<current_state, search_context, searches_started,
            searches_completed, total_nodes_searched, events, responses, rx>>

smVars == <<last_call, nops, config>>
engineVars == <<th, ncmds, last>>
timeVars == <<params, position_info, policy, limits, progress, elapsed,
              stop_early>>
parseVars == <<cmd_line, parsed>>
readVars == <<stdin_lines, arriving, pipe, read_buf, handed>>
loopVars == <<lp, stdout, stats, sig>>

\* ------------------------------------------------- EngineState (state.rs)
Initializing == "Initializing"
Ready == "Ready"
Searching == "Searching"
Pondering == "Pondering"
Stopping == "Stopping"
Error == "Error"

EngineState == {Initializing, Ready, Searching, Pondering, Stopping, Error}

\* Option<T>: None is the empty sequence, Some(v) the one-element sequence
None == <<>>
Some(v) == <<v>>
is_some(o) == o # None
unwrap(o) == o[1]
unwrap_or(o, d) == IF is_some(o) THEN o[1] ELSE d
\* Option::or
or(a, b) == IF is_some(a) THEN a ELSE b

is_computing_ready_too(s) == s \in {Searching, Pondering, Ready}
is_computing_pondering_only(s) == s = Pondering
is_computing(s) == s \in {Searching, Pondering}

can_accept_commands(s) == s \in {Ready, Pondering}

\* validate_transition: the arms of the match, in the order of the source
validate_transition_self_first(from, to) ==
    CASE from = Initializing /\ to \in {Ready, Error} -> TRUE
      [] from = Ready /\ to \in {Searching, Pondering, Stopping, Error} -> TRUE
      [] from = Searching /\ to \in {Ready, Pondering, Stopping, Error} -> TRUE
      [] from = Pondering /\ to \in {Ready, Searching, Stopping, Error} -> TRUE
      [] from = Error /\ to \in {Initializing, Stopping} -> TRUE
      [] OTHER -> IF from = to THEN TRUE
                  ELSE IF from = Stopping THEN FALSE
                  ELSE FALSE
validate_transition(from, to) ==
    CASE from = Initializing /\ to \in {Ready, Error} -> TRUE
      [] from = Ready /\ to \in {Searching, Pondering, Stopping, Error} -> TRUE
      [] from = Searching /\ to \in {Ready, Pondering, Stopping, Error} -> TRUE
      [] from = Pondering /\ to \in {Ready, Searching, Stopping, Error} -> TRUE
      [] from = Error /\ to \in {Initializing, Stopping} -> TRUE
      [] OTHER -> IF from = Stopping THEN FALSE
                  ELSE IF from = to THEN TRUE
                  ELSE FALSE

StateChangeEventSwapped(from, to) == [from |-> to, to |-> from]
StateChangeEvent(from, to) == [from |-> from, to |-> to]

\* transition_to as one uninterrupted call: the result, the state it leaves
\* and the events sent
transition_to_swap_first(cur, new_state, evs) ==
    IF validate_transition(cur, new_state)
    THEN [ok |-> TRUE, err |-> "none", state |-> new_state,
          events |-> Append(evs, StateChangeEvent(cur, new_state))]
    ELSE [ok |-> FALSE, err |-> "Engine", state |-> new_state, events |-> evs]
transition_to(cur, new_state, evs) ==
    IF validate_transition(cur, new_state)
    THEN [ok |-> TRUE, err |-> "none", state |-> new_state,
          events |-> Append(evs, StateChangeEvent(cur, new_state))]
    ELSE [ok |-> FALSE, err |-> "Engine", state |-> cur, events |-> evs]

\* ------------------------------ the broadcast channel of the responses
\* A receiver of response_tx: the indices (into responses) of the messages
\* it has still to receive, and how many it missed since its last recv.
NoReceiver == [subscribed |-> FALSE, queue |-> <<>>, lagged |-> 0]

\* broadcast::Sender::send as the receiver sees it: the channel retains the
\* newest ResponseCapacity messages, a receiver further behind loses the
\* oldest one; the sender never waits
broadcast_send(r, i) ==
    IF ~r.subscribed THEN r
    ELSE IF Len(r.queue) < ResponseCapacity
    THEN [r EXCEPT !.queue = Append(@, i)]
    ELSE [r EXCEPT !.queue = Append(Tail(@), i), !.lagged = @ + 1]

\* broadcast::Sender::send returns Err exactly when no receiver exists
broadcast_send_ok(r) == r.subscribed

\* UCIEngine::send_response: Ok in both arms of its match on the send
engine_send_response_full_fails(r) ==
    r.lagged = 0 /\ Len(r.queue) < ResponseCapacity
engine_send_response(r) == IF broadcast_send_ok(r) THEN TRUE ELSE TRUE

\* a message goes out on response_tx
Emit(msg) ==
    /\ responses' = Append(responses, msg)
    /\ rx' = broadcast_send(rx, Len(responses) + 1)

\* ------------------------------------------- threads of the engine (Spec)
\* thread 0 is the dispatcher (UCIEngine::process_uci_command, one command
\* at a time); threads 1..MaxGo are the tasks handle_go_command spawns
Dispatcher == 0
TaskIds == 1..MaxGo
Threads == {Dispatcher} \cup TaskIds

\* the commands the dispatcher routes to a handler that touches UCIState;
\* "initialize" and "reset" are UCIEngine::initialize and UCIEngine::reset
Commands == {"initialize", "go", "stop", "quit", "ponderhit", "ucinewgame",
             "isready", "reset"}

\* nodes reported by the simulated search, and by stop_search
TASK_NODES == 1000
STOP_NODES == 0

IdleThread == [pc |-> "idle", cmd |-> "none", seen |-> "none",
               to |-> "none", k |-> "none", kerr |-> "none", base |-> 0,
               sent |-> 0]
UnbornTask == [IdleThread EXCEPT !.pc = "unborn", !.cmd = "task"]

IsRet(label) == label \in {"ret_ok", "ret_err"}

\* move thread t to the record rec; a handler that reaches ret_ok / ret_err
\* returns: the dispatcher is idle again and its result is recorded
Jump(t, rec) ==
    /\ th' = [th EXCEPT ![t] = IF IsRet(rec.pc) THEN IdleThread ELSE rec]
    /\ last' = IF IsRet(rec.pc)
               THEN [cmd |-> rec.cmd, ok |-> (rec.pc = "ret_ok"), seen |-> rec.seen]
               ELSE last

Goto(t, label) == Jump(t, [th[t] EXCEPT !.pc = label])

\* a call of transition_to(to): continue at k when it returns Ok, at kerr
\* when it returns Err
Call(rec, to, k, kerr) ==
    [rec EXCEPT !.pc = "tt_load", !.to = to, !.k = k, !.kerr = kerr]

\* where a caller of stop_search continues: handle_stop_command propagates
\* the result, shutdown and reset ignore it (let _ =)
AfterStop(cmd, ok) ==
    CASE cmd = "quit" -> "ret_ok"
      [] cmd = "reset" -> "reset_ctx"
      [] OTHER -> IF ok THEN "ret_ok" ELSE "ret_err"

\* the first step of each handler
Entry(c) ==
    LET rec == [IdleThread EXCEPT !.cmd = c] IN
    CASE c = "initialize" -> Call(rec, Ready, "ret_ok", "ret_err")
      [] c = "go" -> Call(rec, Searching, "go_ctx", "ret_err")
      [] c = "stop" -> [rec EXCEPT !.pc = "stop_check"]
      [] c = "quit" -> Call(rec, Stopping, "quit_check", "ret_err")
      [] c = "ponderhit" -> [rec EXCEPT !.pc = "ph_check"]
      [] c = "ucinewgame" -> [rec EXCEPT !.pc = "reset_ctx"]
      [] c = "isready" -> [rec EXCEPT !.pc = "isready"]
      [] c = "uci" -> [rec EXCEPT !.pc = "uci_send"]
      [] c = "reset" -> [rec EXCEPT !.pc = "ereset_check"]

Spawned == {i \in TaskIds : th[i].pc # "unborn"}

\* process_uci_command: the dispatcher takes the next command
Dispatch(c) ==
    /\ th[Dispatcher].pc = "idle"
    /\ ncmds < MaxCmds
    /\ c = "go" => Cardinality(Spawned) < MaxGo
    /\ ncmds' = ncmds + 1
    /\ th' = [th EXCEPT ![Dispatcher] = Entry(c)]
    /\ UNCHANGED <<shared, last, smVars, timeVars, parseVars, readVars, loopVars>>

\* transition_to, first half: load the state and validate the transition
TTLoad(t) ==
    /\ th[t].pc = "tt_load"
    /\ IF validate_transition(current_state, th[t].to)
       THEN Goto(t, "tt_swap")
       ELSE Goto(t, th[t].kerr)
    /\ UNCHANGED <<shared, ncmds, smVars, timeVars, parseVars, readVars, loopVars>>

\* transition_to, second half: swap the state in and broadcast the event,
\* whose `from` is the value the swap returned
TTSwap(t) ==
    /\ th[t].pc = "tt_swap"
    /\ current_state' = th[t].to
    /\ events' = Append(events, StateChangeEvent(current_state, th[t].to))
    /\ IF th[t].k = "then_ready"
       THEN Jump(t, Call(th[t], Ready, "ret_ok", "ret_err"))
       ELSE Goto(t, th[t].k)
    /\ UNCHANGED <<search_context, searches_started, searches_completed,
                   total_nodes_searched, responses, rx, ncmds, smVars, timeVars, parseVars, readVars, loopVars>>

\* start_search after its transition: install the context
GoCtx ==
    /\ th[Dispatcher].pc = "go_ctx"
    /\ search_context' = Some(ncmds)
    /\ Goto(Dispatcher, "go_inc")
    /\ UNCHANGED <<current_state, searches_started, searches_completed,
                   total_nodes_searched, events, responses, rx, ncmds, smVars,
                   timeVars, parseVars, readVars, loopVars>>

\* start_search: searches_started.fetch_add(1)
GoInc ==
    /\ th[Dispatcher].pc = "go_inc"
    /\ searches_started' = searches_started + 1
    /\ Goto(Dispatcher, "go_spawn")
    /\ UNCHANGED <<current_state, search_context, searches_completed,
                   total_nodes_searched, events, responses, rx, ncmds, smVars,
                   timeVars, parseVars, readVars, loopVars>>

\* handle_go_command: tokio::spawn of the completion task, then Ok
GoSpawn ==
    /\ th[Dispatcher].pc = "go_spawn"
    /\ LET i == CHOOSE j \in TaskIds \ Spawned :
                    \A m \in TaskIds \ Spawned : j <= m
       IN th' = [th EXCEPT ![i] = [UnbornTask EXCEPT !.pc = "sleep",
                                                     !.base = Len(responses)],
                           ![Dispatcher] = IdleThread]
    /\ last' = [cmd |-> "go", ok |-> TRUE, seen |-> "none"]
    /\ UNCHANGED <<shared, ncmds, smVars, timeVars, parseVars, readVars, loopVars>>

\* the spawned task: tokio::time::sleep(100 ms) is over
TaskWake(t) ==
    /\ t \in TaskIds
    /\ th[t].pc = "sleep"
    /\ Goto(t, "cs_inc")
    /\ UNCHANGED <<shared, ncmds, smVars, timeVars, parseVars, readVars, loopVars>>

\* stop_search: load the state; complete the search only when computing
StopCheck ==
    /\ th[Dispatcher].pc = "stop_check"
    /\ LET rec == [th[Dispatcher] EXCEPT !.seen = current_state] IN
       IF is_computing(current_state)
       THEN Jump(Dispatcher, [rec EXCEPT !.pc = "cs_inc"])
       ELSE Jump(Dispatcher, [rec EXCEPT !.pc = AfterStop(rec.cmd, TRUE)])
    /\ UNCHANGED <<shared, ncmds, smVars, timeVars, parseVars, readVars, loopVars>>

\* complete_search: searches_completed.fetch_add(1)
CsInc(t) ==
    /\ th[t].pc = "cs_inc"
    /\ searches_completed' = searches_completed + 1
    /\ Goto(t, "cs_nodes")
    /\ UNCHANGED <<current_state, search_context, searches_started,
                   total_nodes_searched, events, responses, rx, ncmds, smVars,
                   timeVars, parseVars, readVars, loopVars>>

\* complete_search: total_nodes_searched.fetch_add(nodes_searched)
CsNodes(t) ==
    /\ th[t].pc = "cs_nodes"
    /\ total_nodes_searched' = total_nodes_searched
                               + (IF t = Dispatcher THEN STOP_NODES ELSE TASK_NODES)
    /\ Goto(t, "cs_ctx")
    /\ UNCHANGED <<current_state, search_context, searches_started,
                   searches_completed, events, responses, rx, ncmds, smVars,
                   timeVars, parseVars, readVars, loopVars>>

\* complete_search: clear the context, then call transition_to(Ready)
CsCtx(t) ==
    /\ th[t].pc = "cs_ctx"
    /\ search_context' = None
    /\ IF t = Dispatcher
       THEN Jump(t, Call(th[t], Ready, "stop_send", AfterStop(th[t].cmd, FALSE)))
       ELSE Jump(t, Call(th[t], Ready, "task_send", "failed"))
    /\ UNCHANGED <<current_state, searches_started, searches_completed,
                   total_nodes_searched, events, responses, rx, ncmds, smVars,
                   timeVars, parseVars, readVars, loopVars>>

\* stop_search: send "bestmove (none)" and return Ok
StopSend ==
    /\ th[Dispatcher].pc = "stop_send"
    /\ Emit("bestmove (none)")
    /\ Goto(Dispatcher, AfterStop(th[Dispatcher].cmd, engine_send_response(rx)))
    /\ UNCHANGED <<current_state, search_context, searches_started,
                   searches_completed, total_nodes_searched, events, ncmds,
                   smVars, timeVars, parseVars, readVars, loopVars>>

\* the spawned task after complete_search returned Ok: send the best move
TaskSend(t) ==
    /\ t \in TaskIds
    /\ th[t].pc = "task_send"
    /\ Emit("bestmove e2e4")
    /\ Goto(t, "done")
    /\ UNCHANGED <<current_state, search_context, searches_started,
                   searches_completed, total_nodes_searched, events, ncmds,
                   smVars, timeVars, parseVars, readVars, loopVars>>

\* shutdown after its transition to Stopping: stop a search still computing
QuitCheck ==
    /\ th[Dispatcher].pc = "quit_check"
    /\ IF is_computing(current_state)
       THEN Goto(Dispatcher, "stop_check")
       ELSE Goto(Dispatcher, "ret_ok")
    /\ UNCHANGED <<shared, ncmds, smVars, timeVars, parseVars, readVars, loopVars>>

\* handle_ponderhit_command: Pondering becomes Searching, else nothing
PonderHitCheck ==
    /\ th[Dispatcher].pc = "ph_check"
    /\ IF current_state = Pondering
       THEN Jump(Dispatcher, Call(th[Dispatcher], Searching, "ret_ok", "ret_err"))
       ELSE Goto(Dispatcher, "ret_ok")
    /\ UNCHANGED <<shared, ncmds, smVars, timeVars, parseVars, readVars, loopVars>>

\* UCIEngine::reset: stop a search still computing, then UCIState::reset
EngineResetCheck ==
    /\ th[Dispatcher].pc = "ereset_check"
    /\ IF is_computing(current_state)
       THEN Goto(Dispatcher, "stop_check")
       ELSE Goto(Dispatcher, "reset_ctx")
    /\ UNCHANGED <<shared, ncmds, smVars, timeVars, parseVars, readVars, loopVars>>

\* UCIState::reset: clear the context
ResetCtxClearingStatistics ==
    /\ th[Dispatcher].pc = "reset_ctx"
    /\ search_context' = None
    /\ searches_started' = 0
    /\ searches_completed' = 0
    /\ total_nodes_searched' = 0
    /\ Goto(Dispatcher, "reset_load")
    /\ UNCHANGED <<current_state, events, responses, rx, ncmds, smVars,
                   timeVars, parseVars, readVars, loopVars>>
ResetCtx ==
    /\ th[Dispatcher].pc = "reset_ctx"
    /\ search_context' = None
    /\ Goto(Dispatcher, "reset_load")
    /\ UNCHANGED <<current_state, searches_started, searches_completed,
                   total_nodes_searched, events, responses, rx, ncmds, smVars,
                   timeVars, parseVars, readVars, loopVars>>

\* UCIState::reset: from Error through Initializing to Ready, from any
\* other state but Ready straight to Ready
ResetLoad ==
    /\ th[Dispatcher].pc = "reset_load"
    /\ LET rec == [th[Dispatcher] EXCEPT !.seen = current_state] IN
       IF current_state = Error
       THEN Jump(Dispatcher, Call(rec, Initializing, "then_ready", "ret_err"))
       ELSE IF current_state # Ready
       THEN Jump(Dispatcher, Call(rec, Ready, "ret_ok", "ret_err"))
       ELSE Jump(Dispatcher, [rec EXCEPT !.pc = "ret_ok"])
    /\ UNCHANGED <<shared, ncmds, smVars, timeVars, parseVars, readVars, loopVars>>

\* handle_isready_command: readyok in either branch
IsReady ==
    /\ th[Dispatcher].pc = "isready"
    /\ Emit("readyok")
    /\ Goto(Dispatcher, IF engine_send_response(rx) THEN "ret_ok" ELSE "ret_err")
    /\ UNCHANGED <<current_state, search_context, searches_started,
                   searches_completed, total_nodes_searched, events, ncmds,
                   smVars, timeVars, parseVars, readVars, loopVars>>

\* format!("{}", b) of a bool
fmt_bool(b) == IF b THEN "true" ELSE "false"

\* the responses of handle_uci_command, in the order it sends them: the
\* identification, the four options send_uci_options formats from the
\* configuration it reads, uciok
uci_responses_static(cfg) ==
    <<"id name", "id author",
      "option name Hash type spin default 128 min 1 max 2048",
      "option name Threads type spin default 1 min 1 max 64",
      "option name Ponder type check default false",
      "option name UCI_AnalyseMode type check default false",
      "uciok">>
uci_responses(cfg) ==
    <<"id name", "id author",
      "option name Hash type spin default " \o ToString(cfg.hash_size_mb)
          \o " min 1 max 2048",
      "option name Threads type spin default " \o ToString(cfg.thread_count)
          \o " min 1 max 64",
      "option name Ponder type check default " \o fmt_bool(cfg.ponder_enabled),
      "option name UCI_AnalyseMode type check default "
          \o fmt_bool(cfg.analysis_mode),
      "uciok">>

\* handle_uci_command: the next send_response(..)?, Ok after the last
UciSend ==
    /\ th[Dispatcher].pc = "uci_send"
    /\ LET n == th[Dispatcher].sent + 1 IN
       /\ Emit(uci_responses(config)[n])
       /\ IF ~engine_send_response(rx) THEN Goto(Dispatcher, "ret_err")
          ELSE IF n = Len(uci_responses(config)) THEN Goto(Dispatcher, "ret_ok")
          ELSE Jump(Dispatcher, [th[Dispatcher] EXCEPT !.sent = n])
    /\ UNCHANGED <<current_state, search_context, searches_started,
                   searches_completed, total_nodes_searched, events, ncmds,
                   smVars, timeVars, parseVars, readVars, loopVars>>

\* SearchParams / limits are not in use in Spec
IdleTime == /\ params = None
            /\ position_info = None
            /\ policy = [kind |-> "none", safety_margin_ms |-> 0, time_ms |-> 0]
            /\ limits = None
            /\ progress = None
            /\ elapsed = 0
            /\ stop_early = None

\* no command line is parsed outside SpecParse
IdleParse == /\ cmd_line = <<>>
             /\ parsed = None

\* the characters of stdin are followed only in SpecRead
IdleRead == /\ stdin_lines = <<>>
            /\ arriving = <<>>
            /\ pipe = <<>>
            /\ read_buf = <<>>
            /\ handed = <<>>

\* EventLoopStats::default (the counters; times and memory left out)
NoStats == [commands_processed |-> 0, responses_sent |-> 0,
            command_timeouts |-> 0]

\* the locals of UCIEventLoop::run: its position, what it returned, the
\* graceful_shutdown flag, whether the deadline of graceful_shutdown has
\* passed, whether shutdown_rx is Some, the number of reads of stdin, the
\* kind of the last one, and the messages still to be received when
\* graceful_shutdown began
NoLoop == [pc |-> "off", result |-> "none", graceful |-> FALSE,
           expired |-> FALSE, shutdown_rx |-> FALSE, nread |-> 0,
           kind |-> "none", snap |-> <<>>]

\* no event loop exists in Spec, SpecSM and SpecTime
IdleLoop == /\ lp = NoLoop
            /\ rx = NoReceiver
            /\ stdout = <<>>
            /\ stats = NoStats
            /\ sig = FALSE

\* EngineConfig::default
DefaultConfig ==
    [hash_size_mb |-> 16, thread_count |-> 1, ponder_enabled |-> FALSE,
     multithread_enabled |-> FALSE, analysis_mode |-> FALSE,
     contempt_factor |-> 0]

\* UCIEngine::new with UCIState::new
InitEngine ==
    /\ current_state = Initializing
    /\ search_context = None
    /\ searches_started = 0
    /\ searches_completed = 0
    /\ total_nodes_searched = 0
    /\ events = <<>>
    /\ responses = <<>>
    /\ th = [t \in Threads |-> IF t = Dispatcher THEN IdleThread ELSE UnbornTask]
    /\ ncmds = 0
    /\ last = [cmd |-> "none", ok |-> TRUE, seen |-> "none"]
    /\ last_call = [op |-> "none", from |-> Initializing, to |-> Initializing,
                    ok |-> TRUE, err |-> "none"]
    /\ nops = 0
    /\ config = DefaultConfig

Init ==
    /\ InitEngine
    /\ IdleTime
    /\ IdleParse
    /\ IdleRead
    /\ IdleLoop

\* a step of thread t other than taking a new command
ThreadStep(t) ==
    \/ TTLoad(t)
    \/ TTSwap(t)
    \/ CsInc(t)
    \/ CsNodes(t)
    \/ CsCtx(t)
    \/ TaskWake(t)
    \/ TaskSend(t)
    \/ (t = Dispatcher /\ (\/ GoCtx \/ GoInc \/ GoSpawn \/ StopCheck \/ StopSend
                           \/ QuitCheck \/ PonderHitCheck \/ EngineResetCheck
                           \/ ResetCtx \/ ResetLoad \/ IsReady \/ UciSend))

Next ==
    \/ \E c \in Commands : Dispatch(c)
    \/ \E t \in Threads : TTLoad(t)
    \/ \E t \in Threads : TTSwap(t)
    \/ \E t \in Threads : CsInc(t)
    \/ \E t \in Threads : CsNodes(t)
    \/ \E t \in Threads : CsCtx(t)
    \/ \E t \in TaskIds : TaskWake(t)
    \/ \E t \in TaskIds : TaskSend(t)
    \/ GoCtx
    \/ GoInc
    \/ GoSpawn
    \/ StopCheck
    \/ StopSend
    \/ QuitCheck
    \/ PonderHitCheck
    \/ EngineResetCheck
    \/ ResetCtx
    \/ ResetLoad
    \/ IsReady

Spec == Init /\ [][Next]_vars

\* the runtime schedules every runnable task and a handler that has started
\* runs to its end; nothing obliges the GUI to send another command
FairSpec == Spec /\ \A t \in Threads : WF_vars(ThreadStep(t))

\* ------------------------------- UCIState called by one caller (SpecSM)
\* the fields of UCIState as one value
StateRec ==
    [current_state |-> current_state, search_context |-> search_context,
     searches_started |-> searches_started,
     searches_completed |-> searches_completed,
     total_nodes_searched |-> total_nodes_searched, events |-> events,
     config |-> config]

\* transition_to on the fields
st_transition_to(st, to) ==
    LET r == transition_to(st.current_state, to, st.events) IN
    [ok |-> r.ok, err |-> r.err,
     st |-> [st EXCEPT !.current_state = r.state, !.events = r.events]]

start_search_unchecked(st, context) ==
    LET r == st_transition_to(st, Searching) IN
    [r EXCEPT !.st = [r.st EXCEPT !.search_context = Some(context),
                                  !.searches_started = @ + 1]]
start_search(st, context) ==
    LET r == st_transition_to(st, Searching) IN
    IF ~r.ok THEN r
    ELSE [r EXCEPT !.st = [r.st EXCEPT !.search_context = Some(context),
                                       !.searches_started = @ + 1]]

complete_search(st, nodes_searched) ==
    st_transition_to([st EXCEPT !.searches_completed = @ + 1,
                                !.total_nodes_searched = @ + nodes_searched,
                                !.search_context = None],
                     Ready)

reset_direct(st) ==
    LET s1 == [st EXCEPT !.search_context = None] IN
    IF s1.current_state # Ready
    THEN st_transition_to(s1, Ready)
    ELSE [ok |-> TRUE, err |-> "none", st |-> s1]
reset(st) ==
    LET s1 == [st EXCEPT !.search_context = None] IN
    IF s1.current_state = Error
    THEN LET r1 == st_transition_to(s1, Initializing) IN
         IF ~r1.ok THEN r1 ELSE st_transition_to(r1.st, Ready)
    ELSE IF s1.current_state # Ready
    THEN st_transition_to(s1, Ready)
    ELSE [ok |-> TRUE, err |-> "none", st |-> s1]

\* NewGameHandler::handle_ucinewgame_command (handlers/newgame.rs), a
\* handler the dispatcher does not call: a Protocol error naming the state
\* unless the state is Ready; an Engine error when ffi::engine_clear_hash
\* reports failure; else reset_search_statistics, which calls reset() and
\* drops its result
newgame_handle_ucinewgame_command(st, hash_cleared) ==
    IF st.current_state # Ready
    THEN [ok |-> FALSE, err |-> "Protocol", st |-> st]
    ELSE IF ~hash_cleared
    THEN [ok |-> FALSE, err |-> "Engine", st |-> st]
    ELSE [ok |-> TRUE, err |-> "none", st |-> reset(st).st]

\* set_error_state logs a failed transition and returns nothing
set_error_state(st) ==
    [ok |-> TRUE, err |-> "none", st |-> st_transition_to(st, Error).st]

\* one operation on UCIState, from call to return, that sends the strings
\* `sent` on response_tx (to which nothing is subscribed in SpecSM)
SMCallSending(op, to, r, sent) ==
    /\ nops < MaxOps
    /\ nops' = nops + 1
    /\ current_state' = r.st.current_state
    /\ search_context' = r.st.search_context
    /\ searches_started' = r.st.searches_started
    /\ searches_completed' = r.st.searches_completed
    /\ total_nodes_searched' = r.st.total_nodes_searched
    /\ events' = r.st.events
    /\ config' = r.st.config
    /\ last_call' = [op |-> op, from |-> current_state, to |-> to,
                     ok |-> r.ok, err |-> r.err]
    /\ responses' = responses \o sent
    /\ UNCHANGED <<rx, engineVars, timeVars, parseVars, readVars, loopVars>>

\* one operation of UCIState, from call to return
SMCall(op, to, r) == SMCallSending(op, to, r, <<>>)

\* UCIEngine::handle_isready_command called on the state: readyok is sent
\* in both branches, and send_response returns Ok
handle_isready_command_strict(st) ==
    IF can_accept_commands(st.current_state)
    THEN [ok |-> engine_send_response(rx), err |-> "none", st |-> st,
          sent |-> <<"readyok">>]
    ELSE [ok |-> FALSE, err |-> "Protocol", st |-> st, sent |-> <<>>]
handle_isready_command(st) ==
    IF can_accept_commands(st.current_state)
    THEN [ok |-> engine_send_response(rx), err |-> "none", st |-> st,
          sent |-> <<"readyok">>]
    ELSE [ok |-> engine_send_response(rx), err |-> "none", st |-> st,
          sent |-> <<"readyok">>]

\* the largest value of the (scaled) u32
U32_MAX == 2^U32Bits - 1

\* the value of an option as the parser hands it over: a token that is a
\* decimal number n, or a word
NumToken(n) == [num |-> TRUE, n |-> n, word |-> "digits"]
WordToken(w) == [num |-> FALSE, n |-> 0, word |-> w]

\* str::parse::<u32>: Err for a word and for a number above u32::MAX
parse_u32(v) ==
    IF v.num /\ v.n <= U32_MAX THEN [ok |-> TRUE, v |-> v.n]
    ELSE [ok |-> FALSE, v |-> 0]

\* Ord::clamp
clamp(x, lo, hi) == IF x < lo THEN lo ELSE IF x > hi THEN hi ELSE x

\* str::to_lowercase on the option names and values in use
to_lowercase(w) ==
    CASE w = "Hash" -> "hash"
      [] w = "HASH" -> "hash"
      [] w = "Threads" -> "threads"
      [] w = "Ponder" -> "ponder"
      [] w = "Style" -> "style"
      [] w = "True" -> "true"
      [] OTHER -> w

\* matches!(value_str.to_lowercase().as_str(), "true" | "1")
is_true_token(v) ==
    IF v.num THEN v.n = 1 ELSE to_lowercase(v.word) = "true"

\* UCIEngine::handle_setoption_command called on the state
handle_setoption_command(st, name, value) ==
    LET okst(c) == [ok |-> TRUE, err |-> "none",
                    st |-> [st EXCEPT !.config = c], sent |-> <<>>]
        fail == [ok |-> FALSE, err |-> "Protocol", st |-> st, sent |-> <<>>]
        lname == to_lowercase(name)
        cfg == st.config
    IN CASE lname = "hash" ->
                IF ~is_some(value) THEN okst(cfg)
                ELSE LET hash_size == parse_u32(unwrap(value)) IN
                     IF ~hash_size.ok THEN fail
                     ELSE okst([cfg EXCEPT
                                   !.hash_size_mb = clamp(hash_size.v, 1, 2048)])
         [] lname = "threads" ->
                IF ~is_some(value) THEN okst(cfg)
                ELSE LET thread_count == parse_u32(unwrap(value)) IN
                     IF ~thread_count.ok THEN fail
                     ELSE okst([cfg EXCEPT
                                   !.thread_count = clamp(thread_count.v, 1, 64),
                                   !.multithread_enabled = thread_count.v > 1])
         [] lname = "ponder" ->
                IF ~is_some(value) THEN okst(cfg)
                ELSE okst([cfg EXCEPT
                              !.ponder_enabled = is_true_token(unwrap(value))])
         [] OTHER -> okst(cfg)

\* UCIEngine::handle_uci_command called on the state
handle_uci_command(st) ==
    [ok |-> engine_send_response(rx), err |-> "none", st |-> st,
     sent |-> uci_responses(st.config)]

SMTransitionTo(to) == SMCall("transition_to", to, st_transition_to(StateRec, to))
SMStartSearch == SMCall("start_search", Searching, start_search(StateRec, nops + 1))
SMCompleteSearch(n) == SMCall("complete_search", Ready, complete_search(StateRec, n))
SMReset == SMCall("reset", Ready, reset(StateRec))
SMNewGame ==
    \E hash_cleared \in BOOLEAN :
        SMCall("ucinewgame", Ready,
               newgame_handle_ucinewgame_command(StateRec, hash_cleared))
SMSetErrorState == SMCall("set_error_state", Error, set_error_state(StateRec))
SMIsReady ==
    LET r == handle_isready_command(StateRec)
    IN SMCallSending("isready", current_state, r, r.sent)

\* the option names and values of the setoption commands: numbers at the
\* ends of both ranges, outside them and above u32::MAX, and words
OptionNames == {"Hash", "HASH", "Threads", "Ponder", "Style"}
OptionValues ==
    {NumToken(n) : n \in {0, 1, 64, 65, 2048, 2049, U32_MAX, U32_MAX + 1}}
    \cup {WordToken(w) : w \in {"True", "abc"}}

SMSetOption(name, value) ==
    SMCallSending("setoption", current_state,
                  handle_setoption_command(StateRec, name, value), <<>>)
SMUci ==
    LET r == handle_uci_command(StateRec)
    IN SMCallSending("uci", current_state, r, r.sent)

\* the option handlers of the dispatcher called one after another
NextCfg ==
    \/ \E name \in OptionNames, value \in {None} \cup {Some(v) : v \in OptionValues} :
           SMSetOption(name, value)
    \/ SMUci

SpecCfg == Init /\ [][NextCfg]_vars

NextSM ==
    \/ \E to \in EngineState : SMTransitionTo(to)
    \/ SMStartSearch
    \/ \E n \in {STOP_NODES, TASK_NODES} : SMCompleteSearch(n)
    \/ SMReset
    \/ SMNewGame
    \/ SMSetErrorState
    \/ SMIsReady

SpecSM == Init /\ [][NextSM]_vars

\* ------------------------------------------ error recovery (SpecRecover)
\* the kinds of UCIError
ErrorKinds == {"Protocol", "Engine", "Position", "Move", "Search",
               "Configuration", "Io", "Ffi", "Timeout", "Resource",
               "Internal"}

\* recovery::recovery_strategy
recovery_strategy(kind) ==
    CASE kind \in {"Protocol", "Configuration", "Timeout", "Internal"}
             -> "ContinueWithDefault"
      [] kind \in {"Engine", "Search", "Ffi"} -> "ResetState"
      [] kind \in {"Position", "Move"} -> "Skip"
      [] kind \in {"Io", "Resource"} -> "RetryOnce"

\* recovery::recover_from_error: every arm of the match on the strategy
\* writes one line to the log and nothing else; the function has no access
\* to the UCIState
recover_from_error(st, kind) ==
    [ok |-> TRUE, err |-> kind, st |-> st]

SMRecover(kind) ==
    SMCall("recover_from_error", current_state,
           recover_from_error(StateRec, kind))

NextRecover ==
    \/ NextSM
    \/ \E kind \in ErrorKinds : SMRecover(kind)

SpecRecover == Init /\ [][NextRecover]_vars

\* ------------------------------------------- time policies (SpecTime)
\* the largest value of the (scaled) u64
U64_MAX == 2^WordBits - 1

wrapping_sub(a, b) == (a - b + 2^WordBits) % 2^WordBits
saturating_sub(a, b) == IF a > b THEN a - b ELSE 0
saturating_add(a, b) == IF a + b > U64_MAX THEN U64_MAX ELSE a + b
min(a, b) == IF a <= b THEN a ELSE b

\* StandardTimePolicy::new sets max_time_factor 3.0; the soft factor of
\* default_policy is 0.35, held here in hundredths
MAX_TIME_FACTOR == 3
TIME_FACTOR_PCT == 35
EMERGENCY_SOFT_MS == 10

\* the largest power of two strictly below n (n >= 2), from p upwards
RECURSIVE Pow2Below(_, _)
Pow2Below(n, p) == IF 2 * p < n THEN Pow2Below(n, 2 * p) ELSE p

\* ((base_time as f64) * 0.35) as u64.  The f64 nearest to 0.35 is
\* 0.35 - 0.1 * 2^-52, so the product lies just below base * 0.35 and the
\* cast truncates.  Where base * 0.35 is not an integer the truncation is
\* floor(base * 35 / 100).  Where it is an integer n, the product rounds
\* (to nearest, ties to even) up to n unless it is nearer to the f64 below
\* n, which is when 4 n > 7 * 2^e for the power of two 2^e < n <= 2^(e+1),
\* and then the cast yields n - 1.
soft_of_base(base_time) ==
    LET n == (base_time * TIME_FACTOR_PCT) \div 100 IN
    IF (base_time * TIME_FACTOR_PCT) % 100 # 0 \/ n < 2 THEN n
    ELSE IF 4 * n > 7 * Pow2Below(n, 1) THEN n - 1 ELSE n

\* ((base_time as f64) * 3.0).min(available_time as f64) as u64: both
\* operands are exact in f64
hard_of_base(base_time, available_time) ==
    min(base_time * MAX_TIME_FACTOR, available_time)

\* TimeLimits in milliseconds; panicked marks a call that did not return
TimeLimits(soft_ms, hard_ms) ==
    [panicked |-> FALSE, soft_limit |-> soft_ms, hard_limit |-> hard_ms]
Panic == [panicked |-> TRUE, soft_limit |-> 0, hard_limit |-> 0]

\* TimeLimits::infinite: Duration::from_secs(u64::MAX / 1000) for both
infinite_limits ==
    TimeLimits((U64_MAX \div 1000) * 1000, (U64_MAX \div 1000) * 1000)

estimate_moves_remaining_no_middlegame(pinfo) ==
    IF pinfo.is_endgame THEN 15 ELSE 40
estimate_moves_remaining(pinfo) ==
    IF pinfo.is_endgame THEN 15
    ELSE IF pinfo.is_opening THEN 40
    ELSE 30

\* StandardTimePolicy::calculate_time_limit
standard_calculate_time_limit(pol, p, pinfo) ==
    IF p.infinite THEN infinite_limits
    ELSE IF is_some(p.movetime)
    THEN TimeLimits(saturating_sub(unwrap(p.movetime), pol.safety_margin_ms),
                    unwrap(p.movetime))
    ELSE IF is_some(or(p.wtime, p.btime))
    THEN LET our_time == unwrap(or(p.wtime, p.btime))
             our_inc == or(p.winc, p.binc)
         IN IF our_time <= pol.safety_margin_ms
            THEN TimeLimits(EMERGENCY_SOFT_MS,
                            saturating_sub(our_time, EMERGENCY_SOFT_MS))
            ELSE LET available_time == saturating_sub(our_time, pol.safety_margin_ms)
                     increment == unwrap_or(our_inc, 0)
                     moves_remaining ==
                         unwrap_or(p.movestogo, estimate_moves_remaining(pinfo))
                 IN IF moves_remaining = 0
                    THEN Panic   \* attempt to divide by zero
                    ELSE LET base_time ==
                                 saturating_add(available_time \div moves_remaining,
                                                increment)
                         IN TimeLimits(soft_of_base(base_time),
                                       hard_of_base(base_time, available_time))
    ELSE infinite_limits

\* FixedTimePolicy::calculate_time_limit
fixed_calculate_time_limit(pol, p, pinfo) ==
    TimeLimits(saturating_sub(pol.time_ms, pol.safety_margin_ms), pol.time_ms)

\* InfiniteTimePolicy::calculate_time_limit
infinite_calculate_time_limit(pol, p, pinfo) == infinite_limits

\* TimePolicy::calculate_time_limit, by the policy in use
calculate_time_limit(pol, p, pinfo) ==
    CASE pol.kind = "Standard" -> standard_calculate_time_limit(pol, p, pinfo)
      [] pol.kind = "Fixed" -> fixed_calculate_time_limit(pol, p, pinfo)
      [] pol.kind = "Infinite" -> infinite_calculate_time_limit(pol, p, pinfo)

Opt(S) == {None} \cup {Some(v) : v \in S}

\* the inputs: zero, values around the safety margins, ordinary clock
\* values and the values next to the type maximum
RemainingTimes == {0, 10, 20, 50, 51, 100, 60000, U64_MAX - 1, U64_MAX}
Increments == {0, 1000, U64_MAX}
MovesToGo == {0, 1, 20}
MoveTimes == {0, 30, 5000}

SearchParamsSet ==
    [movetime : Opt(MoveTimes), wtime : Opt(RemainingTimes),
     btime : Opt({300000}), winc : Opt(Increments), binc : Opt({500}),
     movestogo : Opt(MovesToGo), infinite : BOOLEAN]

PositionInfoSet == [is_opening : BOOLEAN, is_endgame : BOOLEAN]

Policies ==
    [kind : {"Standard"}, safety_margin_ms : {30, 50}, time_ms : {0}]
    \cup [kind : {"Fixed"}, safety_margin_ms : {0, 50}, time_ms : {30, 5000}]
    \cup [kind : {"Infinite"}, safety_margin_ms : {0}, time_ms : {0}]

InitTime ==
    /\ current_state = Initializing
    /\ search_context = None
    /\ searches_started = 0
    /\ searches_completed = 0
    /\ total_nodes_searched = 0
    /\ events = <<>>
    /\ responses = <<>>
    /\ th = [t \in Threads |-> IF t = Dispatcher THEN IdleThread ELSE UnbornTask]
    /\ ncmds = 0
    /\ last = [cmd |-> "none", ok |-> TRUE, seen |-> "none"]
    /\ last_call = [op |-> "none", from |-> Initializing, to |-> Initializing,
                    ok |-> TRUE, err |-> "none"]
    /\ nops = 0
    /\ config = DefaultConfig
    /\ params \in {Some(p) : p \in SearchParamsSet}
    /\ position_info \in {Some(i) : i \in PositionInfoSet}
    /\ policy \in Policies
    /\ limits = None
    /\ progress = None
    /\ elapsed = 0
    /\ stop_early = None
    /\ IdleParse
    /\ IdleRead
    /\ IdleLoop

\* one call of calculate_time_limit
Calculate ==
    /\ limits = None
    /\ limits' = Some(calculate_time_limit(policy, unwrap(params),
                                           unwrap(position_info)))
    /\ UNCHANGED <<shared, engineVars, smVars, params, position_info, policy,
                   progress, elapsed, stop_early, parseVars, readVars, loopVars>>

NextTime == Calculate

SpecTime == InitTime /\ [][NextTime]_vars

\* ------------------------------------------- early stopping (SpecStop)
\* StandardTimePolicy::new sets min_stability_for_early_stop to 3
MIN_STABILITY_FOR_EARLY_STOP == 3
MIN_DEPTH_FOR_EARLY_STOP == 6
MIN_ELAPSED_MS == 100

\* Duration::as_millis: the whole milliseconds of a duration, here held in
\* microseconds
as_millis(d) == d \div 1000
from_millis(ms) == ms * 1000

\* StandardTimePolicy::should_stop_early
standard_should_stop_early_inclusive(el, pr) ==
    IF pr.depth < MIN_DEPTH_FOR_EARLY_STOP THEN FALSE
    ELSE IF pr.best_move_stable
            /\ pr.stability_count >= MIN_STABILITY_FOR_EARLY_STOP
    THEN as_millis(el) >= MIN_ELAPSED_MS
    ELSE FALSE
standard_should_stop_early(el, pr) ==
    IF pr.depth < MIN_DEPTH_FOR_EARLY_STOP THEN FALSE
    ELSE IF pr.best_move_stable
            /\ pr.stability_count >= MIN_STABILITY_FOR_EARLY_STOP
    THEN as_millis(el) > MIN_ELAPSED_MS
    ELSE FALSE

\* TimePolicy::should_stop_early, by the policy in use: FixedTimePolicy and
\* InfiniteTimePolicy never stop early
should_stop_early(pol, el, pr) ==
    CASE pol.kind = "Standard" -> standard_should_stop_early(el, pr)
      [] pol.kind = "Fixed" -> FALSE
      [] pol.kind = "Infinite" -> FALSE

\* the inputs: depths and stability counts around the thresholds, elapsed
\* times around 100 ms, between whole milliseconds included
Depths == {0, 5, 6, 7, 12}
StabilityCounts == {0, 2, 3, 4}
ElapsedTimes == {0, from_millis(50), from_millis(100) - 1, from_millis(100),
                 from_millis(101) - 1, from_millis(101), from_millis(500)}

SearchProgressSet ==
    [depth : Depths, best_move_stable : BOOLEAN,
     stability_count : StabilityCounts]

InitStop ==
    /\ InitEngine
    /\ params = None
    /\ position_info = None
    /\ limits = None
    /\ policy \in Policies
    /\ progress \in {Some(pr) : pr \in SearchProgressSet}
    /\ elapsed \in ElapsedTimes
    /\ stop_early = None
    /\ IdleParse
    /\ IdleRead
    /\ IdleLoop

\* one call of should_stop_early
ShouldStopEarly ==
    /\ stop_early = None
    /\ stop_early' = Some(should_stop_early(policy, elapsed, unwrap(progress)))
    /\ UNCHANGED <<shared, engineVars, smVars, params, position_info, policy,
                   limits, progress, elapsed, parseVars, readVars, loopVars>>

NextStop == ShouldStopEarly

SpecStop == InitStop /\ [][NextStop]_vars

\* ------------------------------------ parsing of `position` (SpecParse)
\* characters are one-character strings; a token of a command line is a
\* keyword or a sequence of characters
Keyword(w) == [kw |-> w, chars |-> <<>>]
MoveToken(cs) == [kw |-> "", chars |-> cs]

LowerFiles == {"a", "b", "c", "d", "e", "f", "g", "h"}
UpperFiles == {"A", "B", "C", "D", "E", "F", "G", "H"}
RankChars == {"1", "2", "3", "4", "5", "6", "7", "8"}
\* char::is_ascii_alphanumeric, on the characters of the inputs
AsciiAlphanumeric ==
    LowerFiles \cup UpperFiles \cup RankChars
    \cup {"0", "9", "i", "n", "q", "r", "x", "N", "Q", "R"}

\* str::len of a token
KeywordLen(w) ==
    CASE w = "position" -> 8
      [] w = "positon" -> 7
      [] w = "startpos" -> 8
      [] w = "moves" -> 5
      [] OTHER -> 0
token_len(t) == IF t.kw = "" THEN Len(t.chars) ELSE KeywordLen(t.kw)

\* str::len of the line: its tokens joined by single spaces
RECURSIVE line_len(_)
line_len(tokens) ==
    IF tokens = <<>> THEN 0
    ELSE token_len(Head(tokens))
         + (IF Len(tokens) > 1 THEN 1 + line_len(Tail(tokens)) ELSE 0)

\* the result of a parse: the moves of the Position command or the kind
\* of the UCIError
ParseOk(moves) == [ok |-> TRUE, err |-> "none", moves |-> moves]
ParseErr(kind) == [ok |-> FALSE, err |-> kind, moves |-> <<>>]

\* InputSanitizer::validate_move: the characters it allows are a-h, 1-8, q,
\* r and n
validate_move(cs) ==
    /\ Len(cs) >= 4 /\ Len(cs) <= 5
    /\ \A i \in 1..Len(cs) :
           cs[i] \in LowerFiles \cup RankChars \cup {"q", "r", "n"}

\* InputLimits::default().max_moves_per_command
MAX_MOVES_PER_COMMAND == 512

\* InputSanitizer::validate_move_list: "Protocol" for too many moves,
\* "Move" for the first move validate_move rejects
validate_move_list(moves) ==
    IF Len(moves) > MAX_MOVES_PER_COMMAND THEN "Protocol"
    ELSE IF \E i \in 1..Len(moves) : ~validate_move(moves[i].chars) THEN "Move"
    ELSE "none"

\* ChessMove::validate_square
validate_square(sq) ==
    /\ Len(sq) = 2
    /\ sq[1] \in LowerFiles \cup UpperFiles
    /\ sq[2] \in RankChars

\* ChessMove::new: the move, or None where it returns a Move error
ChessMove_new(cs) ==
    IF Len(cs) < 4 \/ Len(cs) > 5 THEN None
    ELSE IF \E i \in 1..Len(cs) : cs[i] \notin AsciiAlphanumeric THEN None
    ELSE LET from_square == SubSeq(cs, 1, 2)
             to_square == SubSeq(cs, 3, 4)
             promotion == IF Len(cs) = 5 THEN Some(cs[5]) ELSE None
         IN IF ~validate_square(from_square) \/ ~validate_square(to_square)
            THEN None
            ELSE IF is_some(promotion)
                    /\ unwrap(promotion) \notin
                           {"q", "r", "b", "n", "Q", "R", "B", "N"}
            THEN None
            ELSE Some([from_square |-> from_square, to_square |-> to_square,
                       promotion |-> promotion])

\* ZeroCopyParser::parse_moves_from_position for Position::StartPos
parse_moves_from_position(args) ==
    IF \E i \in 1..Len(args) : args[i].kw = "moves"
    THEN LET idx == CHOOSE i \in 1..Len(args) :
                        /\ args[i].kw = "moves"
                        /\ \A j \in 1..(i - 1) : args[j].kw # "moves"
             move_strings == SubSeq(args, idx + 1, Len(args))
             checked == validate_move_list(move_strings)
             moves == [i \in 1..Len(move_strings) |->
                           ChessMove_new(move_strings[i].chars)]
         IN IF checked # "none" THEN ParseErr(checked)
            ELSE IF \E i \in 1..Len(moves) : moves[i] = None
            THEN ParseErr("Move")
            ELSE ParseOk([i \in 1..Len(moves) |-> unwrap(moves[i])])
    ELSE ParseOk(<<>>)

\* ZeroCopyParser::parse_position, without the arm of `fen`
parse_position(args) ==
    IF args = <<>> THEN ParseErr("Protocol")
    ELSE IF args[1].kw = "startpos" THEN parse_moves_from_position(args)
    ELSE ParseErr("Protocol")

\* InputSanitizer::check_resource_exhaustion: no character of a line of
\* fewer than 100 characters is repeated more than 100 times, which leaves
\* the test of the density of the tokens
check_resource_exhaustion(tokens) ==
    ~(Len(tokens) > 0 /\ line_len(tokens) \div Len(tokens) < 2)

\* ZeroCopyParser::parse_command on a line of graphic ASCII tokens, which
\* sanitize_command_line accepts when there is a token: the dispatch on
\* the command, with the arm of `position`
parse_command(tokens) ==
    IF tokens = <<>> THEN ParseErr("Protocol")
    ELSE IF ~check_resource_exhaustion(tokens) THEN ParseErr("Protocol")
    ELSE IF Head(tokens).kw = "position" THEN parse_position(Tail(tokens))
    ELSE ParseErr("Protocol")

\* the inputs: files, ranks and promotion letters inside and outside what
\* the validators allow, moves too short and too long
FileChars == {"a", "h", "H", "i"}
RankInputs == {"1", "8", "9"}
PromotionChars == {"q", "r", "b", "n", "Q", "R", "B", "N", "x", "!"}

Squares == {<<f, r>> : f \in FileChars, r \in RankInputs}
MoveStrings ==
    {a \o b : a \in Squares, b \in Squares}
    \cup {<<"h", "7", "h", "8", p>> : p \in PromotionChars}
    \cup {<<"e", "7", "e", "8", p>> : p \in PromotionChars}
    \cup {<<"e", "2">>, <<"e", "2", "e", "4", "e", "5">>}

CommandLineSet ==
    {<<Keyword("position"), Keyword("startpos"), Keyword("moves"),
       MoveToken(m)>> : m \in MoveStrings}
    \cup {<<Keyword("position"), Keyword("startpos"), Keyword("moves"),
            MoveToken(<<"e", "2", "e", "4">>), MoveToken(m)>> :
              m \in MoveStrings}
    \cup {<<Keyword("position")>>, <<Keyword("position"), Keyword("startpos")>>,
          <<Keyword("position"), Keyword("moves")>>,
          <<Keyword("positon"), Keyword("startpos")>>}

InitParse ==
    /\ InitEngine
    /\ IdleTime
    /\ cmd_line \in CommandLineSet
    /\ parsed = None
    /\ IdleRead
    /\ IdleLoop

\* one call of parse_command
ParseCommand ==
    /\ parsed = None
    /\ parsed' = Some(parse_command(cmd_line))
    /\ UNCHANGED <<shared, engineVars, smVars, timeVars, cmd_line, readVars,
                   loopVars>>

NextParse == ParseCommand

SpecParse == InitParse /\ [][NextParse]_vars

\* --------------------------------------- reading of stdin (SpecRead)
\* the stdin branch of select! in UCIEventLoop::run, character by
\* character.  read_line (tokio AsyncBufReadExt) moves what it reads into
\* the buffer of its future and gives it back to input_buffer only when it
\* completes with a whole line; the future is dropped when another branch
\* of the select! completes, and run clears input_buffer before every
\* select!.
NL == "\n"

\* the characters of the lines, each line followed by a newline
RECURSIVE Flatten(_)
Flatten(ls) ==
    IF ls = <<>> THEN <<>> ELSE Head(ls) \o <<NL>> \o Flatten(Tail(ls))

\* the index of the first newline of a sequence of characters, 0 if none
FirstNewline(cs) ==
    IF \E i \in 1..Len(cs) : cs[i] = NL
    THEN CHOOSE i \in 1..Len(cs) :
             cs[i] = NL /\ \A j \in 1..(i - 1) : cs[j] # NL
    ELSE 0

\* the lines a GUI writes
InputLineSet == {<<"g", "o">>, <<"u", "c", "i">>, <<"s", "t", "o", "p">>}
StdinLineSeqs ==
    {<<a>> : a \in InputLineSet} \cup {<<a, b>> : a, b \in InputLineSet}

InitRead ==
    /\ InitEngine
    /\ IdleTime
    /\ IdleParse
    /\ stdin_lines \in StdinLineSeqs
    /\ arriving = Flatten(stdin_lines)
    /\ pipe = <<>>
    /\ read_buf = <<>>
    /\ handed = <<>>
    /\ IdleLoop

\* the next n characters written by the GUI reach stdin
Arrive(n) ==
    /\ n \in 1..Len(arriving)
    /\ pipe' = pipe \o SubSeq(arriving, 1, n)
    /\ arriving' = SubSeq(arriving, n + 1, Len(arriving))
    /\ UNCHANGED <<shared, engineVars, smVars, timeVars, parseVars,
                   stdin_lines, read_buf, handed, loopVars>>

\* the read_line future is polled and stays pending: it consumes what
\* stdin holds, which has no newline
ReadPending ==
    /\ pipe # <<>>
    /\ FirstNewline(pipe) = 0
    /\ read_buf' = read_buf \o pipe
    /\ pipe' = <<>>
    /\ UNCHANGED <<shared, engineVars, smVars, timeVars, parseVars,
                   stdin_lines, arriving, handed, loopVars>>

\* the read_line future is polled and completes: the line is what its
\* buffer holds and what stdin holds up to the newline;
\* process_input_command is called with it (sanitize_string trims the
\* newline)
ReadLineComplete ==
    /\ FirstNewline(pipe) > 0
    /\ handed' = Append(handed, read_buf
                                \o SubSeq(pipe, 1, FirstNewline(pipe) - 1))
    /\ pipe' = SubSeq(pipe, FirstNewline(pipe) + 1, Len(pipe))
    /\ read_buf' = <<>>
    /\ UNCHANGED <<shared, engineVars, smVars, timeVars, parseVars,
                   stdin_lines, arriving, loopVars>>

\* another branch of the select! (a response, the tick) completes while
\* read_line is pending with part of a line: its future is dropped with
\* what it had read
OtherBranchCompletes ==
    /\ read_buf # <<>>
    /\ read_buf' = <<>>
    /\ UNCHANGED <<shared, engineVars, smVars, timeVars, parseVars,
                   stdin_lines, arriving, pipe, handed, loopVars>>

NextRead ==
    \/ \E n \in 1..Len(arriving) : Arrive(n)
    \/ ReadPending
    \/ ReadLineComplete
    \/ OtherBranchCompletes

SpecRead == InitRead /\ [][NextRead]_vars

\* ---------------------------------- the event loop (SpecLoop, FairLoop)
\* the lines of stdin by what the sanitizer and the parser make of them:
\* a command the parser accepts, a line it rejects ("garbage"), a line that
\* is empty after sanitization and a line the sanitizer rejects ("bad")
CommandLines == {"uci", "isready", "go", "stop", "quit"}
OtherLines == {"garbage", "empty", "bad"}

\* how a write to stdout ends: written and flushed, write_all fails, flush
\* fails, or the response timeout elapses
WriteOutcomes == {"ok", "write_err", "flush_err", "timeout"}

\* a line of stdout: its text and, for a response received from the
\* channel, its index in responses (0 for a line the loop writes itself)
StdoutLine(text, idx) == [text |-> text, idx |-> idx]

PARSE_ERROR_RESPONSE == "info string ERROR: Invalid command"

\* UCIEventLoop::send_response with the outcome o of the write: the lines
\* of stdout and the statistics afterwards, and the result returned
send_response(out, st, line, o) ==
    CASE o = "ok" -> [stdout |-> Append(out, line),
                      stats |-> [st EXCEPT !.responses_sent = @ + 1],
                      res |-> "Ok"]
      [] o = "flush_err" -> [stdout |-> out, stats |-> st, res |-> "Io"]
      [] o = "write_err" -> [stdout |-> out, stats |-> st, res |-> "Io"]
      [] o = "timeout" -> [stdout |-> out, stats |-> st, res |-> "Timeout"]

\* should_shutdown: the engine state is Stopping
should_shutdown(s) == s = Stopping

\* run returns: the position after `return` or after the loop
Returned(l, result) == [l EXCEPT !.pc = "returned", !.result = result]

\* the end of an iteration of the loop, res being what the handler of the
\* branch returned: run only logs an Err; it breaks when the engine is
\* Stopping (graceful_shutdown is false on this path, so run returns Ok at
\* once), else it selects again
EndIterationFatal(l, res, s) ==
    IF res # "Ok" THEN Returned(l, res)
    ELSE IF should_shutdown(s) THEN Returned(l, "Ok")
    ELSE [l EXCEPT !.pc = "select"]
EndIteration(l, res, s) ==
    IF should_shutdown(s) THEN Returned(l, "Ok")
    ELSE [l EXCEPT !.pc = "select"]

\* stdin returned Ok(0), or the shutdown signal arrived: set
\* graceful_shutdown and break; graceful_shutdown() then starts with the
\* messages in q still to be received
BeginShutdownKeepReading(l, q) == [l EXCEPT !.pc = "select"]
BeginShutdown(l, q) ==
    [l EXCEPT !.pc = "shutdown", !.graceful = TRUE, !.snap = q]

\* where run is while process_command is awaited inside the timeout
AwaitDispatchDetached == "select"
AwaitDispatch == "handling"

\* the shutdown branch of select! takes shutdown_rx out of self when it is
\* polled; when another branch completes the select the taken receiver is
\* dropped with the branch.  Whether the branch was polled before the one
\* that completed depends on the random order of select!.
AfterSelect(l, taken) ==
    [l EXCEPT !.shutdown_rx = @ /\ ~(taken /\ ~sig), !.kind = "none"]

\* the loop record, the receiver, stdout and the statistics after a step of
\* the loop; the receiver is dropped with the event loop when run returns
LoopStep(l, r, out, st) ==
    /\ lp' = l
    /\ rx' = IF l.pc = "returned" THEN [r EXCEPT !.subscribed = FALSE] ELSE r
    /\ stdout' = out
    /\ stats' = st

EngineUnchanged ==
    UNCHANGED <<current_state, search_context, searches_started,
                searches_completed, total_nodes_searched, events, responses,
                engineVars, smVars, timeVars, parseVars, readVars>>

\* run_uci_event_loop: the engine, the event loop subscribed to the
\* responses, and the shutdown receiver installed
InitLoop ==
    /\ InitEngine
    /\ IdleTime
    /\ IdleParse
    /\ IdleRead
    /\ lp = [NoLoop EXCEPT !.pc = "init", !.shutdown_rx = TRUE]
    /\ rx = [NoReceiver EXCEPT !.subscribed = TRUE]
    /\ stdout = <<>>
    /\ stats = NoStats
    /\ sig = FALSE

\* run: engine.initialize() is called and awaited
LoopStart ==
    /\ lp.pc = "init"
    /\ lp' = [lp EXCEPT !.pc = "initializing"]
    /\ th' = [th EXCEPT ![Dispatcher] = Entry("initialize")]
    /\ UNCHANGED <<shared, ncmds, last, smVars, timeVars, parseVars, readVars, stdout, stats, sig>>

\* run: initialize returned; its error is returned as an Engine error
LoopInitialized ==
    /\ lp.pc = "initializing"
    /\ th[Dispatcher].pc = "idle"
    /\ LoopStep(IF last.ok THEN [lp EXCEPT !.pc = "select"]
                ELSE Returned(lp, "Engine"),
                rx, stdout, stats)
    /\ UNCHANGED sig
    /\ EngineUnchanged

\* select!, stdin branch: read_line returns Ok(0)
LoopReadEof ==
    /\ lp.pc = "select"
    /\ lp.nread < MaxLines
    /\ \E taken \in BOOLEAN :
           LET l == [AfterSelect(lp, taken) EXCEPT !.nread = @ + 1,
                                                    !.kind = "eof"]
           IN LoopStep(BeginShutdown(l, rx.queue), rx, stdout, stats)
    /\ UNCHANGED sig
    /\ EngineUnchanged

\* select!, stdin branch: read_line returns Err
LoopReadError ==
    /\ lp.pc = "select"
    /\ lp.nread < MaxLines
    /\ \E taken \in BOOLEAN :
           LET l == [AfterSelect(lp, taken) EXCEPT !.nread = @ + 1,
                                                    !.kind = "read_error"]
           IN LoopStep(Returned(l, "Io"), rx, stdout, stats)
    /\ UNCHANGED sig
    /\ EngineUnchanged

\* process_input_command for a line that is not dispatched, and the rest
\* of the iteration: a sanitizer failure is a Protocol error, an empty line
\* is skipped, a parse failure is reported on stdout by send_response(..)?
\* with the outcome o of the write
LoopReadLineWith(k, taken, o) ==
    /\ lp.pc = "select"
    /\ lp.nread < MaxLines
    /\ k \in OtherLines
    /\ o \in (IF k = "garbage" THEN WriteOutcomes ELSE {"none"})
    /\ LET l == [AfterSelect(lp, taken) EXCEPT !.nread = @ + 1, !.kind = k]
           w == send_response(stdout, stats,
                              StdoutLine(PARSE_ERROR_RESPONSE, 0), o)
       IN CASE k = "bad" ->
                   LoopStep(EndIteration(l, "Protocol", current_state),
                            rx, stdout, stats)
            [] k = "empty" ->
                   LoopStep(EndIteration(l, "Ok", current_state),
                            rx, stdout, stats)
            [] k = "garbage" ->
                   LoopStep(EndIteration(l, w.res, current_state),
                            rx, w.stdout, w.stats)
    /\ UNCHANGED sig
    /\ EngineUnchanged

LoopReadLine(k) ==
    \E taken \in BOOLEAN, o \in WriteOutcomes \cup {"none"} :
        LoopReadLineWith(k, taken, o)

\* process_input_command for a command the parser accepts: the handler of
\* the dispatcher starts, and run awaits it inside timeout(..)
LoopDispatch(c) ==
    /\ lp.pc = "select"
    /\ lp.nread < MaxLines
    /\ c \in CommandLines
    /\ c = "go" => Cardinality(Spawned) < MaxGo
    /\ \E taken \in BOOLEAN :
           lp' = [AfterSelect(lp, taken) EXCEPT !.nread = @ + 1, !.kind = c,
                                                !.pc = AwaitDispatch]
    /\ ncmds' = ncmds + 1
    /\ th' = [th EXCEPT ![Dispatcher] = Entry(c)]
    /\ UNCHANGED <<shared, last, smVars, timeVars, parseVars, readVars, stdout, stats, sig>>

\* process_input_command: process_command returned inside the timeout;
\* Ok updates the command statistics, Err is returned to run, which logs it
LoopReturn ==
    /\ lp.pc = "handling"
    /\ th[Dispatcher].pc = "idle"
    /\ IF last.ok
       THEN LoopStep(EndIteration(lp, "Ok", current_state), rx, stdout,
                     [stats EXCEPT !.commands_processed = @ + 1])
       ELSE LoopStep(EndIteration(lp, "Engine", current_state), rx, stdout,
                     stats)
    /\ UNCHANGED sig
    /\ EngineUnchanged

\* the handler is suspended only where it awaits: before its first step
\* and where shutdown and handle_stop_command await stop_search
AtAwait(rec) == rec = Entry(rec.cmd) \/ rec.pc = "stop_check"

\* the counter of the timeouts after a dispatch timed out
count_timeout_twice(st) == [st EXCEPT !.command_timeouts = @ + 2]
count_timeout(st) == [st EXCEPT !.command_timeouts = @ + 1]

\* process_input_command: the command timeout elapses while the handler is
\* suspended; the handler is dropped, the counter incremented and a
\* Timeout error returned to run, which logs it
DispatchTimeout ==
    /\ lp.pc = "handling"
    /\ th[Dispatcher].pc # "idle"
    /\ AtAwait(th[Dispatcher])
    /\ th' = [th EXCEPT ![Dispatcher] = IdleThread]
    /\ LoopStep(EndIteration(lp, "Timeout", current_state), rx, stdout,
                count_timeout(stats))
    /\ UNCHANGED <<current_state, search_context, searches_started,
                   searches_completed, total_nodes_searched, events, responses,
                   ncmds, last, smVars, timeVars, parseVars, readVars, sig>>

\* broadcast::Receiver::recv is ready when messages were missed or one is
\* retained; it reports the missed ones first (Lagged), else it yields
\* the oldest retained message
recv_ready(r) == r.lagged > 0 \/ r.queue # <<>>
recv_newest_first(r) ==
    IF r.lagged > 0
    THEN [res |-> "Lagged", idx |-> 0, rx |-> [r EXCEPT !.lagged = 0]]
    ELSE [res |-> "Ok", idx |-> r.queue[Len(r.queue)],
          rx |-> [r EXCEPT !.queue = SubSeq(@, 1, Len(@) - 1)]]
recv(r) ==
    IF r.lagged > 0
    THEN [res |-> "Lagged", idx |-> 0, rx |-> [r EXCEPT !.lagged = 0]]
    ELSE [res |-> "Ok", idx |-> Head(r.queue),
          rx |-> [r EXCEPT !.queue = Tail(@)]]

\* the outcomes of the write that follows a recv: none after Lagged
OutcomesAfter(m) == IF m.res = "Ok" THEN WriteOutcomes ELSE {"none"}

\* select!, response branch: a received response is written to stdout with
\* outcome o and a failure of the write is logged; Lagged is logged
LoopRecvWith(taken, o) ==
    /\ lp.pc = "select"
    /\ recv_ready(rx)
    /\ o \in OutcomesAfter(recv(rx))
    /\ LET m == recv(rx)
           l == AfterSelect(lp, taken)
           w == send_response(stdout, stats,
                              StdoutLine(responses[m.idx], m.idx), o)
       IN IF m.res = "Ok"
          THEN LoopStep(EndIteration(l, w.res, current_state),
                        m.rx, w.stdout, w.stats)
          ELSE LoopStep(EndIteration(l, "Ok", current_state),
                        m.rx, stdout, stats)
    /\ UNCHANGED sig
    /\ EngineUnchanged

LoopRecv ==
    \E taken \in BOOLEAN, o \in WriteOutcomes \cup {"none"} :
        LoopRecvWith(taken, o)

\* the task run_uci_event_loop spawns: Ctrl-C arrives, shutdown_tx.send(());
\* the send to a receiver that was dropped fails and the result is
\* discarded
CtrlC ==
    /\ ~sig
    /\ sig' = TRUE
    /\ UNCHANGED <<shared, engineVars, smVars, timeVars, parseVars, readVars, lp, stdout, stats>>

\* select!, shutdown branch: the receiver is still in self and the signal
\* was sent
LoopSignal ==
    /\ lp.pc = "select"
    /\ lp.shutdown_rx
    /\ sig
    /\ LET l == [AfterSelect(lp, TRUE) EXCEPT !.shutdown_rx = FALSE,
                                              !.kind = "signal"]
       IN LoopStep(BeginShutdown(l, rx.queue), rx, stdout, stats)
    /\ UNCHANGED sig
    /\ EngineUnchanged

\* select!, the one-second tick: update_stats touches the uptime and the
\* peak memory only, which are not part of the model
LoopTick ==
    /\ lp.pc = "select"
    /\ \E taken \in BOOLEAN :
           LoopStep(EndIteration(AfterSelect(lp, taken), "Ok", current_state),
                    rx, stdout, stats)
    /\ UNCHANGED sig
    /\ EngineUnchanged

\* graceful_shutdown before its deadline: a received response is written
\* with outcome o (a failure is logged), any Err of recv breaks out of the
\* loop; the final flush follows and Ok is returned
ShutdownRecvWith(o) ==
    /\ lp.pc = "shutdown"
    /\ recv_ready(rx)
    /\ o \in OutcomesAfter(recv(rx))
    /\ LET m == recv(rx)
           w == send_response(stdout, stats,
                              StdoutLine(responses[m.idx], m.idx), o)
       IN IF m.res = "Ok"
          THEN LoopStep(lp, m.rx, w.stdout, w.stats)
          ELSE LoopStep(Returned(lp, "Ok"), m.rx, stdout, stats)
    /\ UNCHANGED sig
    /\ EngineUnchanged

ShutdownRecv == \E o \in WriteOutcomes \cup {"none"} : ShutdownRecvWith(o)

\* graceful_shutdown: the deadline has passed; the final flush follows and
\* Ok is returned
ShutdownDeadline ==
    /\ lp.pc = "shutdown"
    /\ LoopStep(Returned([lp EXCEPT !.expired = TRUE], "Ok"), rx, stdout, stats)
    /\ UNCHANGED sig
    /\ EngineUnchanged

\* a step of run that needs no input
LoopProgress ==
    \/ LoopStart
    \/ LoopInitialized
    \/ LoopReturn
    \/ LoopRecv
    \/ LoopSignal
    \/ ShutdownRecv
    \/ ShutdownDeadline

NextLoop ==
    \/ LoopStart
    \/ LoopInitialized
    \/ LoopReadEof
    \/ LoopReadError
    \/ \E k \in OtherLines : LoopReadLine(k)
    \/ \E c \in CommandLines : LoopDispatch(c)
    \/ LoopReturn
    \/ DispatchTimeout
    \/ LoopRecv
    \/ CtrlC
    \/ LoopSignal
    \/ LoopTick
    \/ ShutdownRecv
    \/ ShutdownDeadline
    \/ \E t \in Threads : TTLoad(t)
    \/ \E t \in Threads : TTSwap(t)
    \/ \E t \in Threads : CsInc(t)
    \/ \E t \in Threads : CsNodes(t)
    \/ \E t \in Threads : CsCtx(t)
    \/ \E t \in TaskIds : TaskWake(t)
    \/ \E t \in TaskIds : TaskSend(t)
    \/ GoCtx
    \/ GoInc
    \/ GoSpawn
    \/ StopCheck
    \/ StopSend
    \/ QuitCheck
    \/ IsReady
    \/ UciSend

SpecLoop == InitLoop /\ [][NextLoop]_vars

\* run is polled whenever it can proceed and the runtime schedules every
\* runnable task; nothing obliges the GUI to write to stdin
FairLoop ==
    /\ SpecLoop
    /\ WF_vars(LoopProgress)
    /\ \A t \in Threads : WF_vars(ThreadStep(t))

\* ------------------------------------------------------------- the claims
\* the legal-transition table as the specification lists it
LegalTransitions ==
    {<<Initializing, Ready>>, <<Initializing, Error>>,
     <<Ready, Searching>>, <<Ready, Pondering>>, <<Ready, Stopping>>,
     <<Ready, Error>>,
     <<Searching, Ready>>, <<Searching, Pondering>>, <<Searching, Stopping>>,
     <<Searching, Error>>,
     <<Pondering, Ready>>, <<Pondering, Searching>>, <<Pondering, Stopping>>,
     <<Pondering, Error>>,
     <<Error, Initializing>>, <<Error, Stopping>>}
    \cup {<<s, s>> : s \in EngineState \ {Stopping}}

Computing == {Searching, Pondering}

\* C1: transition_to(to) called in state `from` succeeds exactly when
\* (from, to) is in the legal-transition table (self-transitions included,
\* except Stopping -> Stopping); every other pair is rejected.
C1_TransitionTable ==
    last_call.op = "transition_to" =>
        (last_call.ok <=> <<last_call.from, last_call.to>> \in LegalTransitions)

C1_Witness ==
    /\ last_call.op = "transition_to"
    /\ last_call.from = Stopping
    /\ last_call.to = Stopping
    /\ ~last_call.ok

\* C2: for every pair outside the table transition_to returns an
\* Engine-kind error and the state read afterwards is still `from`.
C2_RejectedLeavesState ==
    (/\ last_call.op = "transition_to"
     /\ <<last_call.from, last_call.to>> \notin LegalTransitions)
    => (/\ ~last_call.ok
        /\ last_call.err = "Engine"
        /\ current_state = last_call.from)

C2_Witness ==
    /\ last_call.op = "transition_to"
    /\ last_call.from = Initializing
    /\ last_call.to = Searching
    /\ ~last_call.ok
    /\ current_state = Initializing

\* C3: under every interleaving of the dispatcher's handlers with the
\* search-completion tasks, every state change transition_to performs (the
\* value swapped out, the value written) is a pair of the table.
C3_EverySwapLegal ==
    \A i \in DOMAIN events : <<events[i].from, events[i].to>> \in LegalTransitions

\* C4: Stopping is terminal: once the state is Stopping it never takes
\* another value, whatever is processed or still pending afterwards.
C4_StoppingTerminal ==
    [][current_state = Stopping => current_state' = Stopping]_vars

BestMoves == {"bestmove e2e4", "bestmove (none)"}

\* C7: after every accepted `go` the state eventually returns to Ready and
\* a bestmove response is eventually emitted for that search.
C7_GoLeadsToReadyAndBestmove ==
    \A i \in TaskIds :
        /\ (th[i].pc = "sleep") ~> (current_state = Ready)
        /\ (th[i].pc = "sleep") ~>
               (\E j \in DOMAIN responses :
                    j > th[i].base /\ responses[j] \in BestMoves)

\* C8: `quit` processed while a search is active finalizes the search first
\* and only then moves to Stopping: Stopping is never entered straight from
\* Searching or Pondering.
C8_QuitStopsSearchFirst ==
    \A i \in DOMAIN events :
        events[i].to = Stopping => events[i].from \notin Computing

\* the state the stop handler loaded (the one it is about to load, at its
\* first step)
SeenNow ==
    IF th[Dispatcher].pc = "stop_check" THEN current_state
    ELSE th[Dispatcher].seen

DispatcherReturns ==
    th[Dispatcher].pc # "idle" /\ th'[Dispatcher].pc = "idle"

\* C9: `stop` processed while the state is neither Searching nor Pondering
\* changes neither the state, the context nor the counters and emits no
\* response.
C9_StopNoop ==
    [][(/\ th[Dispatcher].cmd = "stop"
        /\ th'[Dispatcher] # th[Dispatcher]
        /\ SeenNow \notin Computing)
       => UNCHANGED <<current_state, search_context, searches_started,
                      searches_completed, total_nodes_searched, responses>>]_vars

C9_Witness ==
    /\ last.cmd = "stop"
    /\ last.ok
    /\ last.seen = Ready
    /\ th[Dispatcher].pc = "idle"

\* C10: `stop` processed while Searching or Pondering finalizes the search
\* before the handler returns: on return the state is Ready and no context
\* is installed.
C10_StopFinalizes ==
    [][(/\ th[Dispatcher].cmd = "stop"
        /\ DispatcherReturns
        /\ SeenNow \in Computing)
       => (current_state' = Ready /\ search_context' = None)]_vars

C10_Witness ==
    /\ last.cmd = "stop"
    /\ last.ok
    /\ last.seen = Searching
    /\ th[Dispatcher].pc = "idle"
    /\ current_state = Ready
    /\ search_context = None

\* C5: for every SearchParams and PositionInfo the limits returned by
\* calculate_time_limit (Standard, Fixed and Infinite) have soft <= hard.
C5_SoftLeHard ==
    (is_some(limits) /\ ~unwrap(limits).panicked)
    => unwrap(limits).soft_limit <= unwrap(limits).hard_limit

\* C6: StandardTimePolicy::calculate_time_limit returns without panicking
\* for every SearchParams, each optional field absent or holding any value
\* of its type, 0 and the maximum included.
C6_NoPanic ==
    (is_some(limits) /\ policy.kind = "Standard") => ~unwrap(limits).panicked

\* a step in which the event loop wrote to stdout with outcome o
LoopWrites(o) ==
    \/ \E taken \in BOOLEAN : LoopRecvWith(taken, o)
    \/ \E taken \in BOOLEAN : LoopReadLineWith("garbage", taken, o)
    \/ ShutdownRecvWith(o)

\* C11: if writing or flushing a response to stdout fails, the event loop
\* terminates with a fatal I/O error instead of continuing to process
\* input.
C11_WriteFailureFatal ==
    [][\A o \in {"write_err", "flush_err"} :
           LoopWrites(o) => (lp'.pc = "returned" /\ lp'.result = "Io")]_vars

\* C12: when stdin reaches end-of-file (read_line returns Ok(0)) the loop
\* reads no further line, performs graceful_shutdown and run returns Ok.
C12_EofGracefulShutdown ==
    /\ [](lp.kind = "eof" =>
            /\ lp.pc \in {"shutdown", "returned"}
            /\ lp.graceful
            /\ (lp.pc = "returned" => lp.result = "Ok"))
    /\ [][lp.kind = "eof" => lp'.nread = lp.nread]_vars
    /\ ((lp.kind = "eof") ~> (lp.pc = "returned" /\ lp.result = "Ok"))

C12_Witness ==
    /\ lp.kind = "eof"
    /\ lp.graceful
    /\ lp.pc = "returned"
    /\ lp.result = "Ok"
    /\ \E j \in DOMAIN stdout : stdout[j].idx \in {lp.snap[i] : i \in DOMAIN lp.snap}

\* C13: every response still queued on the response channel when graceful
\* shutdown begins has been received from the channel (and handed to the
\* write) when graceful_shutdown leaves its loop before the grace period
\* has expired.
C13_ShutdownDrainsQueue ==
    [][(lp.pc = "shutdown" /\ lp'.pc = "returned" /\ ~lp'.expired)
       => \A i \in DOMAIN lp.snap :
              \A j \in DOMAIN rx'.queue : rx'.queue[j] # lp.snap[i]]_vars

\* C14: a stdin line that fails to parse is answered by the `info string
\* ERROR:` line on stdout (when the write succeeds) and the loop stays at
\* its select, ready to read the next line, whatever the write returned.
C14_ParseFailureReported ==
    [][\A o \in WriteOutcomes :
           (\E taken \in BOOLEAN : LoopReadLineWith("garbage", taken, o))
           => /\ lp'.pc = "select"
              /\ o = "ok" =>
                     stdout' = Append(stdout, StdoutLine(PARSE_ERROR_RESPONSE, 0))]_vars

C14_Witness ==
    /\ \E j \in DOMAIN stdout : stdout[j].text = PARSE_ERROR_RESPONSE
    /\ lp.nread = 2
    /\ lp.kind = "isready"
    /\ lp.pc = "handling"

\* C15: a dispatch that exceeds the command timeout increments
\* command_timeouts by exactly one and drops the handler; no other step
\* changes the counter; unless the engine is Stopping the loop is back at
\* its select for the next line.
C15_DispatchTimeoutCounted ==
    [][IF DispatchTimeout
       THEN /\ stats'.command_timeouts = stats.command_timeouts + 1
            /\ th'[Dispatcher].pc = "idle"
            /\ ~should_shutdown(current_state') => lp'.pc = "select"
       ELSE stats'.command_timeouts = stats.command_timeouts]_vars

C15_Witness ==
    /\ stats.command_timeouts = 1
    /\ stats.commands_processed = 1
    /\ lp.nread = 2
    /\ lp.kind = "isready"
    /\ lp.pc = "select"

\* C16: the responses of the channel that reach stdout are there in the
\* order in which they were produced, each with the text produced.
C16_StdoutOrder ==
    /\ \A i \in DOMAIN stdout :
           stdout[i].idx > 0 =>
               /\ stdout[i].idx \in DOMAIN responses
               /\ stdout[i].text = responses[stdout[i].idx]
    /\ \A i, j \in DOMAIN stdout :
           (i < j /\ stdout[i].idx > 0 /\ stdout[j].idx > 0)
               => stdout[i].idx < stdout[j].idx

C16_Witness ==
    \E i \in DOMAIN stdout :
        /\ i + 1 \in DOMAIN stdout
        /\ stdout[i].idx > 0
        /\ stdout[i + 1].idx > stdout[i].idx + 1

\* C17: a handler starts only when every handler started before it has
\* returned, and it is the handler of the line just read.
C17_HandlersInOrder ==
    [][ncmds' = ncmds + 1
       => /\ th[Dispatcher].pc = "idle"
          /\ th'[Dispatcher] = Entry(lp'.kind)
          /\ lp'.nread = lp.nread + 1]_vars

C17_Witness ==
    /\ ncmds = 2
    /\ last.cmd = "go"
    /\ lp.kind = "stop"
    /\ lp.pc = "handling"
    /\ th[Dispatcher].pc = "cs_ctx"

\* the threads whose record a step changes
Movers == {t \in Threads : th'[t] # th[t]}

\* C18: a step that emits a response or a StateChangeEvent is never a
\* failure of the operation that emits it (the handler goes on towards Ok,
\* the task ends done), whether a receiver exists or not and however far
\* behind it is; when the channel is full the receiver misses the oldest
\* message, and its next recv reports the lag and yields no message.
C18_EmitNeverFails ==
    [][/\ (responses' # responses \/ events' # events) =>
            /\ Movers # {}
            /\ \A t \in Movers :
                   /\ th'[t].pc \notin {"failed", "ret_err"}
                   /\ (t = Dispatcher /\ th'[t].pc = "idle") => last'.ok
       /\ responses' # responses =>
            /\ \A t \in Movers \cap TaskIds : th'[t].pc = "done"
            /\ (rx.subscribed /\ Len(rx.queue) = ResponseCapacity) =>
                   /\ rx'.lagged = rx.lagged + 1
                   /\ rx'.queue = Append(Tail(rx.queue), Len(responses'))
       /\ (rx.lagged > 0 /\ (LoopRecv \/ ShutdownRecv)) =>
            /\ rx'.lagged = 0
            /\ rx'.queue = rx.queue
            /\ stdout' = stdout]_vars

C18_Witness ==
    /\ rx.subscribed
    /\ rx.lagged > 0
    /\ Len(rx.queue) = ResponseCapacity
    /\ last.cmd = "uci"
    /\ last.ok
    /\ th[Dispatcher].pc = "idle"

\* C19: `ucinewgame` processed in a state other than Ready returns an
\* error (a Protocol error that names the state).
C19_NewGameRequiresReady ==
    (last.cmd = "ucinewgame" /\ last.seen # Ready) => ~last.ok

\* C20: when `ucinewgame` returns Ok the three statistics read 0.
C20_NewGameClearsStatistics ==
    [][(th[Dispatcher].cmd = "ucinewgame" /\ DispatcherReturns /\ last'.ok)
       => /\ searches_started' = 0
          /\ searches_completed' = 0
          /\ total_nodes_searched' = 0]_vars


C22_Clamped(v, lo, hi) == IF v < lo THEN lo ELSE IF v > hi THEN hi ELSE v

\* C22: after `setoption name Hash value v`, v any unsigned integer, the
\* configured hash size is v clamped to [1, 2048]; after `setoption name
\* Threads value v` the configured thread count is v clamped to [1, 64].
C22_SetOptionClamps ==
    [][\A v \in OptionValues :
           v.num =>
               /\ SMSetOption("Hash", Some(v)) =>
                      config'.hash_size_mb = C22_Clamped(v.n, 1, 2048)
               /\ SMSetOption("Threads", Some(v)) =>
                      config'.thread_count = C22_Clamped(v.n, 1, 64)]_vars

\* the Hash line of the option echo for the hash sizes setoption can
\* configure from OptionValues, and for the default
C23_HashLine(h) ==
    CASE h = 1 -> "option name Hash type spin default 1 min 1 max 2048"
      [] h = 16 -> "option name Hash type spin default 16 min 1 max 2048"
      [] h = 64 -> "option name Hash type spin default 64 min 1 max 2048"
      [] h = 65 -> "option name Hash type spin default 65 min 1 max 2048"
      [] h = 2048 -> "option name Hash type spin default 2048 min 1 max 2048"
      [] OTHER -> "no such hash size"

C24_Transition == \E t \in Threads : TTSwap(t)

\* C24: every successful transition emits exactly one StateChangeEvent,
\* whose `from` is the state before the transition and whose `to` is the
\* state after it; a rejected transition emits none, and so does every
\* step that is not a transition.
C24_OneEventPerTransition ==
    [][/\ C24_Transition =>
            events' = Append(events, [from |-> current_state,
                                      to |-> current_state'])
       /\ (\E t \in Threads : TTLoad(t)) => events' = events
       /\ ~C24_Transition =>
            (events' = events /\ current_state' = current_state)]_vars

C24_Witness ==
    /\ events = <<[from |-> Initializing, to |-> Ready],
                  [from |-> Ready, to |-> Stopping]>>
    /\ last.cmd = "go"
    /\ ~last.ok
    /\ current_state = Stopping

\* C25 as stated: start_search called in a state other than Searching and
\* Pondering fails and installs no context.
C25_StartSearchNeedsPriorTransition ==
    [][(SMStartSearch /\ current_state \notin {Searching, Pondering})
       => (~last_call'.ok /\ search_context' = search_context)]_vars

\* C25 as amended: start_search makes the transition to Searching itself.
\* Called in Ready, Searching or Pondering it succeeds, leaves the state
\* Searching, installs the context and counts the search; called in
\* Initializing, Stopping or Error it fails with an Engine error and
\* installs no context, the state and the counter being as before.
C25_StartSearchTransitions ==
    [][SMStartSearch =>
           IF current_state \in {Ready, Searching, Pondering}
           THEN /\ last_call'.ok
                /\ current_state' = Searching
                /\ search_context' = Some(nops')
                /\ searches_started' = searches_started + 1
           ELSE /\ ~last_call'.ok
                /\ last_call'.err = "Engine"
                /\ search_context' = search_context
                /\ current_state' = current_state
                /\ searches_started' = searches_started]_vars

C25_Witness ==
    /\ last_call.op = "start_search"
    /\ last_call.from = Ready
    /\ last_call.ok
    /\ current_state = Searching
    /\ search_context # None

\* no handler is running and every completion task is unborn, asleep in
\* its simulated search, or has ended
C26_Quiescent ==
    /\ th[Dispatcher].pc = "idle"
    /\ \A t \in TaskIds : th[t].pc \in {"unborn", "sleep", "done", "failed"}

\* C26: wherever no handler or completion task is mid-step, a
\* SearchContext is installed if and only if the state is Searching or
\* Pondering.
C26_ContextIffSearching ==
    C26_Quiescent =>
        (search_context # None <=> current_state \in {Searching, Pondering})

\* C27: reset() called in a state other than Stopping returns Ok and
\* leaves the state Ready; called in Error it gets there through the two
\* transitions Error -> Initializing and Initializing -> Ready.
C27_ResetReachesReady ==
    [][(SMReset /\ current_state # Stopping) =>
           /\ last_call'.ok
           /\ current_state' = Ready
           /\ events' = events \o
                  (CASE current_state = Error ->
                            <<[from |-> Error, to |-> Initializing],
                              [from |-> Initializing, to |-> Ready]>>
                     [] current_state = Ready -> <<>>
                     [] OTHER -> <<[from |-> current_state, to |-> Ready]>>)]_vars

C27_Witness ==
    /\ last_call.op = "reset"
    /\ last_call.from = Error
    /\ last_call.ok
    /\ current_state = Ready
    /\ Len(events) >= 2
    /\ events[Len(events)] = [from |-> Initializing, to |-> Ready]
    /\ events[Len(events) - 1] = [from |-> Error, to |-> Initializing]

C29_Remaining == unwrap(or(unwrap(params).wtime, unwrap(params).btime))

\* the case of C29: Standard policy, search neither infinite nor with a
\* fixed movetime, a remaining time that is at most the safety margin
C29_Emergency ==
    /\ is_some(limits)
    /\ policy.kind = "Standard"
    /\ ~unwrap(params).infinite
    /\ unwrap(params).movetime = None
    /\ unwrap(params).wtime # None \/ unwrap(params).btime # None
    /\ C29_Remaining <= policy.safety_margin_ms

\* C29: Standard policy, search neither infinite nor fixed-movetime,
\* remaining time r <= safety margin: the soft limit is 10 ms and the hard
\* limit is r - 10 ms, or 0 where r < 10.
C29_EmergencyLimits ==
    C29_Emergency =>
        /\ ~unwrap(limits).panicked
        /\ unwrap(limits).soft_limit = 10
        /\ unwrap(limits).hard_limit =
               (IF C29_Remaining < 10 THEN 0 ELSE C29_Remaining - 10)

C29_Witness ==
    /\ C29_Emergency
    /\ C29_Remaining = 0
    /\ unwrap(limits).hard_limit = 0

\* the case of C30: Standard policy with margin 50, wtime 60000, winc 1000,
\* no movestogo, a middlegame position (30 moves assumed)
C30_ScenarioB ==
    /\ is_some(limits)
    /\ policy.kind = "Standard"
    /\ policy.safety_margin_ms = 50
    /\ ~unwrap(params).infinite
    /\ unwrap(params).movetime = None
    /\ unwrap(params).wtime = Some(60000)
    /\ unwrap(params).winc = Some(1000)
    /\ unwrap(params).movestogo = None
    /\ ~unwrap(position_info).is_opening
    /\ ~unwrap(position_info).is_endgame

\* C30: Standard policy with margin 50 and soft factor 0.35, wtime 60000,
\* winc 1000 and no movestogo (30 moves assumed): the soft limit is 1049 ms
\* and the hard limit 8994 ms.
C30_StandardTimeControl ==
    C30_ScenarioB => /\ ~unwrap(limits).panicked
                     /\ unwrap(limits).soft_limit = 1049
                     /\ unwrap(limits).hard_limit = 8994

C30_Witness ==
    /\ C30_ScenarioB
    /\ unwrap(params).btime = None
    /\ unwrap(params).binc = None

\* the conditions of C31 on the search progress: depth at least 6 and a
\* best move stable for at least the configured count
C31_StableEnough ==
    /\ unwrap(progress).depth >= 6
    /\ unwrap(progress).best_move_stable
    /\ unwrap(progress).stability_count >= 3

\* C31 as stated: the Standard policy's should_stop_early returns true
\* exactly when depth >= 6, the best move has been stable for at least the
\* configured count and elapsed >= 100 ms.
C31_StopsAtHundredMs ==
    (is_some(stop_early) /\ policy.kind = "Standard")
    => (unwrap(stop_early) <=> (C31_StableEnough /\ elapsed >= 100 * 1000))

\* C31 as amended: the Standard policy's should_stop_early returns true
\* exactly when depth >= 6, the best move has been stable for at least the
\* configured count and more than 100 whole milliseconds have elapsed
\* (elapsed >= 101 ms).
C31_StopsAfterHundredMs ==
    (is_some(stop_early) /\ policy.kind = "Standard")
    => (unwrap(stop_early) <=> (C31_StableEnough /\ elapsed >= 101 * 1000))

C31_Witness ==
    /\ policy.kind = "Standard"
    /\ C31_StableEnough
    /\ elapsed = 101 * 1000
    /\ stop_early = Some(TRUE)

\* the case of C32: a `position startpos moves` line whose last move has
\* five characters, valid squares and an upper-case promotion letter
C32_UpperCasePromotion ==
    /\ Len(cmd_line) = 4
    /\ cmd_line[1].kw = "position"
    /\ cmd_line[2].kw = "startpos"
    /\ cmd_line[3].kw = "moves"
    /\ Len(cmd_line[4].chars) = 5
    /\ cmd_line[4].chars[1] \in LowerFiles
    /\ cmd_line[4].chars[2] \in RankChars
    /\ cmd_line[4].chars[3] \in LowerFiles
    /\ cmd_line[4].chars[4] \in RankChars
    /\ cmd_line[4].chars[5] \in {"Q", "R", "B", "N"}

\* C32: a `position ... moves` command containing a 5-character move with
\* an upper-case promotion letter Q, R, B or N (for example h7h8R) parses
\* successfully.
C32_UpperCasePromotionParses ==
    (is_some(parsed) /\ C32_UpperCasePromotion) => unwrap(parsed).ok

\* C33: when an error is recovered, the recovery action mapped to its kind
\* is carried out, not merely recorded: after the recovery of an error
\* whose action is reset-state the lifecycle state is reset, that is Ready
\* with no search context.
C33_RecoveryCarriedOut ==
    (/\ last_call.op = "recover_from_error"
     /\ recovery_strategy(last_call.err) = "ResetState")
    => (current_state = Ready /\ search_context = None)

\* the number of bestmove responses sent so far
C34_BestMovesSent ==
    Cardinality({i \in 1..Len(responses) : responses[i] \in BestMoves})

\* C34: for each accepted `go` at most one bestmove response is emitted,
\* in every interleaving of a following `stop` with the completion task
\* of that `go`: the bestmove responses never outnumber the accepted `go`
\* commands.
C34_OneBestMovePerGo ==
    C34_BestMovesSent <= searches_started

\* C35: a `go` processed while the state is already Searching or Pondering
\* does not start a second search.  The handler installs its SearchContext
\* and spawns its completion task once its transition_to(Searching) has
\* swapped the state, and only then; so the claim is that no `go` performs
\* that swap while the state is Searching or Pondering.
C35_NoSecondSearch ==
    [][(TTSwap(Dispatcher) /\ th[Dispatcher].cmd = "go")
           => current_state \notin {Searching, Pondering}]_vars
\* C36: at all times searches_completed <= searches_started, for every
\* sequence of go, stop, quit and ucinewgame commands and every
\* interleaving with the completion tasks.
C36_CompletedLeStarted ==
    searches_completed <= searches_started
\* C37: when complete_search returns an error because the transition to
\* Ready is rejected, it has no effect: the statistics counters and the
\* SearchContext are the same as before the call.
C37_FailedCompleteHasNoEffect ==
    [][\A n \in {STOP_NODES, TASK_NODES} :
           (SMCompleteSearch(n) /\ ~last_call'.ok)
           => /\ searches_started' = searches_started
              /\ searches_completed' = searches_completed
              /\ total_nodes_searched' = total_nodes_searched
              /\ search_context' = search_context]_vars
\* run has returned at the end of the iteration that processed `quit`
C38_ExitedOnQuit ==
    /\ lp.pc = "returned"
    /\ lp.kind = "quit"

\* the responses the dispatcher's handlers sent; "bestmove e2e4" is sent
\* by the completion tasks
C38_DispatcherResponses ==
    {i \in 1..Len(responses) : responses[i] # "bestmove e2e4"}

\* C38: every response the dispatcher produced before `quit` was processed
\* has been written to stdout when the event loop exits.
C38_ResponsesWrittenBeforeExit ==
    C38_ExitedOnQuit
    => \A i \in C38_DispatcherResponses :
           \E j \in 1..Len(stdout) : stdout[j].idx = i
\* C39: if the shutdown signal fires while the event loop is running, also
\* after iterations in which another branch of select! completed first, the
\* loop eventually observes it and exits, and it exits through
\* graceful_shutdown when the signal is what it observed.
C39_SignalEventuallyObserved ==
    /\ ((sig /\ lp.pc \notin {"off", "returned"}) ~> (lp.pc = "returned"))
    /\ [](lp.kind = "signal" =>
              /\ lp.graceful
              /\ lp.pc \in {"shutdown", "returned"})
\* C40: every line arriving on stdin is handed to command processing
\* exactly once and in full, also when another branch of select! completes
\* while the line has been read in part: the lines handed over are always
\* the first lines written to stdin, in order, and all of them once every
\* character has been read.
C40_LinesHandedOnceInFull ==
    /\ \E n \in 0..Len(stdin_lines) : handed = SubSeq(stdin_lines, 1, n)
    /\ (arriving = <<>> /\ pipe = <<>> /\ read_buf = <<>>)
           => handed = stdin_lines

====
